---- MODULE Spec2Model ----
(***************************************************************************)
(* Model of the document access layer of demo-store-order-service:         *)
(* ElasticsearchService (src/src/elasticsearch/elasticsearch.service.ts)   *)
(* and the secret cache it initialises from (src/src/main.ts).             *)
(*                                                                         *)
(* JavaScript values are tagged records [t, v].  A string is a sequence of *)
(* tokens; blanks, dots and underscores are always tokens of their own, so *)
(* trim() and replace(/\./g, '_') are computed on the characters they look *)
(* at.  An object is the sequence of its [key, value] entries in           *)
(* Object.entries order, with unique keys.                                 *)
(***************************************************************************)
EXTENDS Integers, Sequences, FiniteSets, TLC

VARIABLES
    initialized,   \* ElasticsearchService.initialized
    esClient,      \* ElasticsearchService.esClient (Undef until constructed)
    secretsCache,  \* KeyVaultConfigService.secretsCache
    pc,            \* position of the request in flight
    call,          \* the operation in flight and its arguments
    storeCalls,    \* store calls issued by the operation in flight
    storeReply,    \* what the store answered to the awaited call
    result,        \* outcome of the operation in flight
    storeIndices,  \* the store's indices: [index, mappings], in creation order
    storeDocs      \* the store's documents: [index, id, source], in indexing order

vars ==
    <<initialized, esClient, secretsCache, pc, call, storeCalls, storeReply, result,
      storeIndices, storeDocs>>

----------------------------------------------------------------------------
(* Bounds of the model *)

MaxFilterEntries == 2
MaxUpdateEntries == 1
MaxFlattenEntries == 2
MaxCount == 2
MaxClients == 2
MaxHits == 2
MaxDocEntries == 2
MaxDocs == 2

----------------------------------------------------------------------------
(* JavaScript values *)

Undef == [t |-> "undefined", v |-> <<>>]
Null == [t |-> "null", v |-> <<>>]
Num(n) == [t |-> "number", v |-> n]
Bool(b) == [t |-> "boolean", v |-> b]
Str(s) == [t |-> "string", v |-> s]
Arr(items) == [t |-> "array", v |-> items]
Obj(entries) == [t |-> "object", v |-> entries]

\* typeof x
TypeOf(x) ==
    IF x.t \in {"null", "array"} THEN "object" ELSE x.t

\* !x
Falsy(x) ==
    \/ x.t \in {"undefined", "null"}
    \/ x.t = "number" /\ x.v = 0
    \/ x.t = "string" /\ x.v = <<>>
    \/ x.t = "boolean" /\ x.v = FALSE

IsWhitespace(c) == c = " "

RECURSIVE TrimStart(_)
TrimStart(s) ==
    IF s = <<>> THEN s
    ELSE IF IsWhitespace(Head(s)) THEN TrimStart(Tail(s)) ELSE s

RECURSIVE TrimEnd(_)
TrimEnd(s) ==
    IF s = <<>> THEN s
    ELSE IF IsWhitespace(s[Len(s)]) THEN TrimEnd(SubSeq(s, 1, Len(s) - 1)) ELSE s

\* String.prototype.trim
Trim(s) == TrimEnd(TrimStart(s))

\* Object.keys(o)
ObjectKeys(o) == [i \in 1..Len(o.v) |-> o.v[i][1]]

\* Object.entries(o)
ObjectEntries(o) == o.v

\* o[key]
GetProperty(o, key) ==
    IF \E i \in 1..Len(o.v) : o.v[i][1] = key
    THEN o.v[CHOOSE i \in 1..Len(o.v) : o.v[i][1] = key][2]
    ELSE Undef

\* All objects with at most n entries, keys drawn from keys (unique), values from vals
ObjectsOver(keys, vals, n) ==
    { Obj(e) : e \in
        { e \in UNION { [1..m -> keys \X vals] : m \in 0..n } :
            \A i, j \in 1..Len(e) : i # j => e[i][1] # e[j][1] } }

----------------------------------------------------------------------------
(* Outcomes of an operation *)

NoResult == [kind |-> "none", value |-> Undef, exception |-> "", message |-> <<>>]
Returned(x) == [kind |-> "return", value |-> x, exception |-> "", message |-> <<>>]
Thrown(ex, msg) == [kind |-> "throw", value |-> Undef, exception |-> ex, message |-> msg]

NoReply == [kind |-> "none", value |-> Undef, message |-> <<>>]
ReplyValue(x) == [kind |-> "value", value |-> x, message |-> <<>>]
ReplyError(msg) == [kind |-> "error", value |-> Undef, message |-> msg]
\* An error of the store client that carries a statusCode
ReplyErrorStatus(msg, statusCode) ==
    [kind |-> "error", value |-> Num(statusCode), message |-> msg]
\* `throw error` in a catch block: the caught error itself, nothing changed
Rethrown(reply) ==
    [kind |-> "throw", value |-> reply.value, exception |-> "StoreError",
     message |-> reply.message]

INVALID_NUMBER == -1

\* Script parameters (a JavaScript object used as a table): params[name] = value
SetProperty(entries, name, value) ==
    IF \E i \in 1..Len(entries) : entries[i][1] = name
    THEN [i \in 1..Len(entries) |->
            IF entries[i][1] = name THEN <<name, value>> ELSE entries[i]]
    ELSE Append(entries, <<name, value>>)

\* Array.prototype.join(sep) on a sequence of strings
RECURSIVE Join(_, _)
Join(lines, sep) ==
    IF lines = <<>> THEN <<>>
    ELSE IF Len(lines) = 1 THEN lines[1]
    ELSE lines[1] \o sep \o Join(Tail(lines), sep)

\* fullKey.replace(/\./g, '_')
ReplaceDots(s) == [i \in 1..Len(s) |-> IF s[i] = "." THEN "_" ELSE s[i]]

----------------------------------------------------------------------------
(* flattenObjectAndBuildScript: elasticsearch.service.ts 267-288 *)

\* `prefix ? `${prefix}.${key}` : key`
fullKeyOf(prefix, key) ==
    IF prefix # <<>> THEN prefix \o <<".">> \o key ELSE key

paramNameOf(fullKey) == ReplaceDots(fullKey)

\* `ctx._source.${fullKey} = params.${paramName};`
scriptLineOf(fullKey, paramName) ==
    <<"ctx._source.">> \o fullKey \o <<" = params.">> \o paramName \o <<";">>

\* Mutant: a nested object is assigned whole, as a leaf
isNestedObject_never(value) == FALSE

\* Mutant: only undefined is skipped, null is assigned
isSkippedValue_undefinedOnly(value) == value = Undef

\* value === undefined || value === null
isSkippedValue(value) == value = Undef \/ value = Null

\* typeof value === 'object' && value !== null && !Array.isArray(value)
isNestedObject(value) ==
    TypeOf(value) = "object" /\ value # Null /\ value.t # "array"

\* The forEach of flattenObjectAndBuildScript over the entries still to visit;
\* acc is [scriptLines, params], the two arrays the code mutates in place.
RECURSIVE flattenEntries(_, _, _)
flattenEntries(entries, acc, prefix) ==
    IF entries = <<>> THEN acc
    ELSE LET key == Head(entries)[1]
             value == Head(entries)[2]
             fullKey == fullKeyOf(prefix, key)
             paramName == paramNameOf(fullKey)
             after ==
                 IF isSkippedValue(value) THEN acc
                 ELSE IF isNestedObject(value)
                      THEN flattenEntries(ObjectEntries(value), acc, fullKey)
                      ELSE [scriptLines |->
                                Append(acc.scriptLines, scriptLineOf(fullKey, paramName)),
                            params |-> SetProperty(acc.params, paramName, value)]
         IN flattenEntries(Tail(entries), after, prefix)

flattenObjectAndBuildScript(obj, scriptLines, params, prefix) ==
    flattenEntries(ObjectEntries(obj), [scriptLines |-> scriptLines, params |-> params], prefix)

----------------------------------------------------------------------------
(* Query construction of updateByFilter: elasticsearch.service.ts 320-360 *)

\* Mutant: the zero-keys test is missing
upd_noFilter_nullOnly(filter) == Falsy(filter)

\* !filter || Object.keys(filter).length === 0
upd_noFilter(filter) ==
    Falsy(filter) \/ Len(ObjectKeys(filter)) = 0

upd_filterId(filter) == GetProperty(filter, <<"id">>)

\* Mutant: the typeof test is inverted, a string id gives no identity clause
upd_hasFilterId_nonString(filterId) ==
    /\ filterId # Undef
    /\ filterId # Null
    /\ TypeOf(filterId) # "string"

\* filterId !== undefined && filterId !== null && typeof filterId === 'string'
\*   && filterId.trim() !== ''
upd_hasFilterId(filterId) ==
    /\ filterId # Undef
    /\ filterId # Null
    /\ TypeOf(filterId) = "string"
    /\ Trim(filterId.v) # <<>>

\* Object.entries(filter).filter(([key, value]) =>
\*     key !== 'id' && value !== undefined && value !== null)
RECURSIVE upd_otherFilterEntries(_)
upd_otherFilterEntries(entries) ==
    IF entries = <<>> THEN <<>>
    ELSE LET key == Head(entries)[1]
             value == Head(entries)[2]
         IN (IF key # <<"id">> /\ value # Undef /\ value # Null
             THEN <<Head(entries)>> ELSE <<>>)
            \o upd_otherFilterEntries(Tail(entries))

upd_mustClausesForOtherFields(otherFilterEntries) ==
    [i \in 1..Len(otherFilterEntries) |->
        [term |-> [field |-> otherFilterEntries[i][1],
                   value |-> otherFilterEntries[i][2]]]]

upd_queryParts(filter) ==
    LET filterId == upd_filterId(filter)
        otherFilterEntries == upd_otherFilterEntries(ObjectEntries(filter))
    IN (IF upd_hasFilterId(filterId)
        THEN << [ids |-> [values |-> <<filterId>>]] >> ELSE <<>>)
       \o (IF Len(otherFilterEntries) > 0
           THEN upd_mustClausesForOtherFields(otherFilterEntries) ELSE <<>>)

\* Mutant: the guard against an empty clause list is missing
upd_allFieldsEmpty_never(queryParts) == FALSE

\* queryParts.length === 0
upd_allFieldsEmpty(queryParts) == Len(queryParts) = 0

\* Mutant: a single clause is wrapped like several
upd_esQuery_alwaysBool(queryParts) == [bool |-> [must |-> queryParts]]

upd_esQuery(queryParts) ==
    IF Len(queryParts) = 1 THEN queryParts[1]
    ELSE [bool |-> [must |-> queryParts]]

----------------------------------------------------------------------------
(* Query construction of deleteByFilter: elasticsearch.service.ts 438-478 *)

\* Mutant: the zero-keys test is missing
del_noFilter_nullOnly(filter) == Falsy(filter)

del_noFilter(filter) ==
    Falsy(filter) \/ Len(ObjectKeys(filter)) = 0

del_filterId(filter) == GetProperty(filter, <<"id">>)

\* Mutant: the id is not trimmed before the blank test
del_hasFilterId_noTrim(filterId) ==
    /\ filterId # Undef
    /\ filterId # Null
    /\ TypeOf(filterId) = "string"
    /\ filterId.v # <<>>

del_hasFilterId(filterId) ==
    /\ filterId # Undef
    /\ filterId # Null
    /\ TypeOf(filterId) = "string"
    /\ Trim(filterId.v) # <<>>

RECURSIVE del_otherFilterEntries(_)
del_otherFilterEntries(entries) ==
    IF entries = <<>> THEN <<>>
    ELSE LET key == Head(entries)[1]
             value == Head(entries)[2]
         IN (IF key # <<"id">> /\ value # Undef /\ value # Null
             THEN <<Head(entries)>> ELSE <<>>)
            \o del_otherFilterEntries(Tail(entries))

del_mustClausesForOtherFields(otherFilterEntries) ==
    [i \in 1..Len(otherFilterEntries) |->
        [term |-> [field |-> otherFilterEntries[i][1],
                   value |-> otherFilterEntries[i][2]]]]

del_queryParts(filter) ==
    LET filterId == del_filterId(filter)
        otherFilterEntries == del_otherFilterEntries(ObjectEntries(filter))
    IN (IF del_hasFilterId(filterId)
        THEN << [ids |-> [values |-> <<filterId>>]] >> ELSE <<>>)
       \o (IF Len(otherFilterEntries) > 0
           THEN del_mustClausesForOtherFields(otherFilterEntries) ELSE <<>>)

\* Mutant: a filter that gives no clause is not rejected
del_allFieldsEmpty_never(queryParts) == FALSE

del_allFieldsEmpty(queryParts) == Len(queryParts) = 0

del_esQuery(queryParts) ==
    IF Len(queryParts) = 1 THEN queryParts[1]
    ELSE [bool |-> [must |-> queryParts]]

----------------------------------------------------------------------------
(* The two halves of an asynchronous operation: what it does up to the      *)
(* awaited store call, and what it does with the store's answer.            *)

Finished(r) == [kind |-> "finished", result |-> r, request |-> <<>>]

\* Mutant: the store call is issued twice
Awaiting_twice(api, params) ==
    [kind |-> "await", result |-> NoResult,
     request |-> << [api |-> api, params |-> params], [api |-> api, params |-> params] >>]

Awaiting(api, params) ==
    [kind |-> "await", result |-> NoResult,
     request |-> << [api |-> api, params |-> params] >>]

\* Mutant: only null, undefined and '' count as blank
isBlank_noTrim(s) == Falsy(s)

\* Mutant: nothing counts as blank
isBlank_never(s) == FALSE

\* `!indexName || indexName.trim() === ''`
isBlank(s) == Falsy(s) \/ Trim(s.v) = <<>>

\* this.esClient.<api>(...) on a client that was never constructed
TypeErrorMessage(api) ==
    <<"Cannot read properties of undefined (reading '", api, "')">>

\* !updateData || Object.keys(updateData).length === 0
upd_noUpdateData(updateData) ==
    Falsy(updateData) \/ Len(ObjectKeys(updateData)) = 0

\* Mutant: the guard against an empty script is missing
upd_noScriptLines_never(scriptLines) == FALSE

\* scriptLines.length === 0
upd_noScriptLines(scriptLines) == Len(scriptLines) = 0

\* elasticsearch.service.ts 305-391
updateByFilter_start(client, filter, updateData, indexName) ==
    IF isBlank(indexName)
    THEN Finished(Thrown("BadRequestException",
                         <<"Elasticsearch index name cannot be empty or null.">>))
    ELSE IF upd_noUpdateData(updateData)
    THEN Finished(Thrown("BadRequestException",
                         <<"Update data cannot be empty or null.">>))
    ELSE IF upd_noFilter(filter)
    THEN Finished(Returned(Num(INVALID_NUMBER)))
    ELSE LET queryParts == upd_queryParts(filter) IN
    IF upd_allFieldsEmpty(queryParts)
    THEN Finished(Thrown("BadRequestException",
                         <<"Provided filter fields are all empty !!">>))
    ELSE LET esQuery == upd_esQuery(queryParts)
             flat == flattenObjectAndBuildScript(updateData, <<>>, <<>>, <<>>)
             scriptLines == flat.scriptLines
             scriptParams == flat.params
         IN
    IF upd_noScriptLines(scriptLines)
    THEN Finished(Thrown("BadRequestException",
             <<"Update data contains no valid fields to update after processing.">>))
    ELSE LET esScript == [source |-> Join(scriptLines, <<" ">>), params |-> scriptParams]
             params == [index |-> indexName,
                        body |-> [query |-> esQuery, script |-> esScript],
                        refresh |-> TRUE]
         IN
    IF client = Undef
    THEN Finished(Thrown("InternalServerErrorException",
             <<"Failed to update documents in index [">> \o indexName.v
                 \o <<"] by filter: ">> \o TypeErrorMessage("updateByQuery")))
    ELSE Awaiting("updateByQuery", params)

\* Mutant: a reported count of zero is returned as zero
updateByFilter_resume_zeroIsZero(reply, indexName) ==
    IF reply.kind = "error"
    THEN Thrown("InternalServerErrorException",
             <<"Failed to update documents in index [">> \o indexName.v
                 \o <<"] by filter: ">> \o reply.message)
    ELSE LET response == reply.value IN
    IF Falsy(response) THEN Returned(Num(INVALID_NUMBER))
    ELSE IF GetProperty(response, <<"updated">>) = Undef
    THEN Returned(Num(INVALID_NUMBER))
    ELSE Returned(GetProperty(response, <<"updated">>))

\* elasticsearch.service.ts 391-415
updateByFilter_resume(reply, indexName) ==
    IF reply.kind = "error"
    THEN Thrown("InternalServerErrorException",
             <<"Failed to update documents in index [">> \o indexName.v
                 \o <<"] by filter: ">> \o reply.message)
    ELSE LET response == reply.value IN
    IF Falsy(response) THEN Returned(Num(INVALID_NUMBER))
    ELSE IF Falsy(GetProperty(response, <<"updated">>))
    THEN Returned(Num(INVALID_NUMBER))
    ELSE Returned(GetProperty(response, <<"updated">>))

\* elasticsearch.service.ts 429-489
deleteByFilter_start(client, filter, indexName) ==
    IF isBlank(indexName)
    THEN Finished(Thrown("BadRequestException",
                         <<"Elasticsearch index name cannot be empty or null.">>))
    ELSE IF del_noFilter(filter)
    THEN Finished(Returned(Num(INVALID_NUMBER)))
    ELSE LET queryParts == del_queryParts(filter) IN
    IF del_allFieldsEmpty(queryParts)
    THEN Finished(Thrown("BadRequestException",
                         <<"Provided filter fields are all empty !!">>))
    ELSE LET esQuery == del_esQuery(queryParts)
             params == [index |-> indexName, query |-> esQuery, refresh |-> TRUE]
         IN
    IF client = Undef
    THEN Finished(Thrown("InternalServerErrorException",
             <<"Failed to delete documents in index [">> \o indexName.v
                 \o <<"] by filter: ">> \o TypeErrorMessage("deleteByQuery")))
    ELSE Awaiting("deleteByQuery", params)

\* elasticsearch.service.ts 489-514
deleteByFilter_resume(reply, indexName) ==
    IF reply.kind = "error"
    THEN Thrown("InternalServerErrorException",
             <<"Failed to delete documents in index [">> \o indexName.v
                 \o <<"] by filter: ">> \o reply.message)
    ELSE LET response == reply.value IN
    IF Falsy(response) THEN Returned(Num(INVALID_NUMBER))
    ELSE IF Falsy(GetProperty(response, <<"deleted">>))
    THEN Returned(Num(INVALID_NUMBER))
    ELSE Returned(GetProperty(response, <<"deleted">>))

\* fs.readFile + JSON.parse of the mappings file: fileReply is the parsed
\* content, or the failure of either step.  elasticsearch.service.ts 59-88
loadMappings(indexName, fileName, fileReply) ==
    IF isBlank(indexName)
    THEN Thrown("Error", <<"indexName is empty or null !!">>)
    ELSE IF isBlank(fileName)
    THEN Thrown("Error", <<"fileName is empty or null !!">>)
    ELSE IF fileReply.kind = "error"
    THEN Thrown("Error", <<"Failed to load mappings file from ">> \o fileName.v)
    ELSE Returned(fileReply.value)

\* Mutant: the catch block of createIndex swallows what it caught
createIndex_resume_swallow(request, reply, indexName, mappings) ==
    Finished(Returned(Undef))

\* Mutant: the index is created whatever the existence check answered
createIndex_resume_alwaysCreate(request, reply, indexName, mappings) ==
    IF reply.kind = "error"
    THEN Finished(Rethrown(reply))
    ELSE IF request.api = "indices.exists"
    THEN Awaiting("indices.create", [index |-> indexName, mappings |-> mappings])
    ELSE Finished(Returned(Undef))

\* elasticsearch.service.ts 94-112: up to the existence check.  loaded is
\* what loadMappings yielded.
createIndex_start(client, indexName, mappingsFile, loaded) ==
    IF isBlank(indexName)
    THEN Finished(Thrown("Error", <<"indexName is empty or null !!">>))
    ELSE IF isBlank(mappingsFile)
    THEN Finished(Thrown("Error", <<"mappingsFile is empty or null !!">>))
    ELSE IF loaded.kind = "throw"
    THEN Finished(loaded)
    ELSE IF client = Undef
    THEN Finished(Thrown("TypeError", TypeErrorMessage("indices")))
    ELSE Awaiting("indices.exists", [index |-> indexName])

\* elasticsearch.service.ts 112-130: after the existence check, and after
\* the create call
createIndex_resume(request, reply, indexName, mappings) ==
    IF reply.kind = "error"
    THEN Finished(Rethrown(reply))
    ELSE IF request.api = "indices.exists"
    THEN IF Falsy(reply.value)
         THEN Awaiting("indices.create", [index |-> indexName, mappings |-> mappings])
         ELSE Finished(Returned(Undef))
    ELSE Finished(Returned(Undef))

\* elasticsearch.service.ts 132-139
indexDocument_start(client, indexName, document) ==
    IF client = Undef
    THEN Finished(Thrown("TypeError", TypeErrorMessage("index")))
    ELSE Awaiting("index", [index |-> indexName, document |-> document])

\* elasticsearch.service.ts 134-144
indexDocument_resume(reply) ==
    IF reply.kind = "error"
    THEN Rethrown(reply)
    ELSE Returned(reply.value)

\* plainToInstance(returnType, plain) of class-transformer for the DTOs of
\* this service, none of which excludes or renames a property: a new
\* instance that receives every property of plain, converted in turn
RECURSIVE plainToInstance(_)
plainToInstance(plain) ==
    IF plain.t = "object"
    THEN Obj([i \in 1..Len(plain.v) |->
                <<plain.v[i][1], plainToInstance(plain.v[i][2])>>])
    ELSE IF plain.t = "array"
    THEN Arr([i \in 1..Len(plain.v) |-> plainToInstance(plain.v[i])])
    ELSE plain

\* { ...entries, ...o }: the own properties of o, in order, over entries
RECURSIVE spread(_, _)
spread(entries, o) ==
    IF o.t # "object" \/ o.v = <<>> THEN entries
    ELSE spread(SetProperty(entries, o.v[1][1], o.v[1][2]), Obj(Tail(o.v)))

\* { id: <id>, ...dtoInstance }
itemWithId(id, dtoInstance) ==
    Obj(spread(<< << <<"id">>, id >> >>, dtoInstance))

\* Mutant: the size asked for is not handed to the store
defaultSize_ignored(size) == Num(1000)

\* size: number = 1000
defaultSize(size) == IF size = Undef THEN Num(1000) ELSE size

\* elasticsearch.service.ts 155-172
getAllItems_start(client, indexName, size) ==
    IF isBlank(indexName)
    THEN Finished(Thrown("BadRequestException",
                         <<"Elasticsearch index name cannot be empty or null !!">>))
    ELSE IF client = Undef
    THEN Finished(Thrown("InternalServerErrorException",
             <<"Failed to fetch items from index \"">> \o indexName.v
                 \o <<"\": ">> \o TypeErrorMessage("search")))
    ELSE Awaiting("search", [index |-> indexName, size |-> defaultSize(size),
                             query |-> [match_all |-> Obj(<<>>)]])

\* hit._id || ''
hitId(hit) ==
    LET _id == GetProperty(hit, <<"_", "id">>)
    IN IF Falsy(_id) THEN Str(<<>>) ELSE _id

\* elasticsearch.service.ts 166-196
getAllItems_resume(reply, indexName) ==
    IF reply.kind = "error"
    THEN Thrown("InternalServerErrorException",
             <<"Failed to fetch items from index \"">> \o indexName.v
                 \o <<"\": ">> \o reply.message)
    ELSE LET hits == GetProperty(GetProperty(reply.value, <<"hits">>), <<"hits">>).v
             items == [i \in 1..Len(hits) |->
                         itemWithId(hitId(hits[i]),
                             plainToInstance(GetProperty(hits[i], <<"_", "source">>)))]
         IN Returned(Arr(items))

\* Mutant: a not-found status code is treated as any other failure
isNotFoundStatus_never(reply) == FALSE

\* error.statusCode === 404
isNotFoundStatus(reply) == reply.value = Num(404)

\* elasticsearch.service.ts 208-227
getItemById_start(client, id, indexName) ==
    IF isBlank(id)
    THEN Finished(Thrown("BadRequestException",
                         <<"Document ID cannot be empty or null.">>))
    ELSE IF isBlank(indexName)
    THEN Finished(Thrown("BadRequestException",
                         <<"Elasticsearch index name cannot be empty or null.">>))
    ELSE IF client = Undef
    THEN Finished(Thrown("InternalServerErrorException",
             <<"Failed to fetch item with ID [">> \o id.v \o <<"] from index [">>
                 \o indexName.v \o <<"]: ">> \o TypeErrorMessage("get")))
    ELSE Awaiting("get", [index |-> indexName, id |-> id])

\* elasticsearch.service.ts 221-256
getItemById_resume(reply, id, indexName) ==
    IF reply.kind = "error"
    THEN IF isNotFoundStatus(reply)
         THEN Returned(Null)
         ELSE Thrown("InternalServerErrorException",
                  <<"Failed to fetch item with ID [">> \o id.v \o <<"] from index [">>
                      \o indexName.v \o <<"]: ">> \o reply.message)
    ELSE LET response == reply.value IN
    IF Falsy(GetProperty(response, <<"found">>))
    THEN Returned(Null)
    ELSE Returned(itemWithId(GetProperty(response, <<"_", "id">>),
                             plainToInstance(GetProperty(response, <<"_", "source">>))))

----------------------------------------------------------------------------
(* KeyVaultConfigService.getSecret: main.ts 107-127 *)

SecretNames == {"KEY_VAULT_KEY_ELASTICSEARCH_URL", "KEY_VAULT_KEY_ELASTICSEARCH_API_KEY"}

\* Mutant: the cache is never consulted
cacheHas_never(cache, secretName) == FALSE

\* secretsCache.has(secretName)
cacheHas(cache, secretName) == cache[secretName] # Undef

\* main.ts 107-114: the cached value, or the lookup at the secret source
getSecret_start(cache, secretName) ==
    IF cacheHas(cache, secretName)
    THEN Finished(Returned(cache[secretName]))
    ELSE Awaiting("secretClient.getSecret", [name |-> secretName])

\* sourceReply is what secretClient.getSecret would answer: an error, or the
\* secret's value (Undef when the secret has none).  Yields the value returned
\* and the cache afterwards.
getSecret(cache, secretName, sourceReply) ==
    IF cacheHas(cache, secretName)
    THEN [value |-> cache[secretName], cache |-> cache]
    ELSE IF sourceReply.kind = "error"
    THEN [value |-> Undef, cache |-> cache]
    ELSE IF ~Falsy(sourceReply.value)
    THEN [value |-> sourceReply.value,
          cache |-> [cache EXCEPT ![secretName] = sourceReply.value]]
    ELSE [value |-> Undef, cache |-> cache]

----------------------------------------------------------------------------
(* Inputs *)

FilterKeys == { <<"id">>, <<"name">>, <<"email">> }
FilterValues == { Undef, Null, Str(<<" ">>), Str(<<"abc">>), Num(5) }
Filters == {Undef, Null} \cup ObjectsOver(FilterKeys, FilterValues, MaxFilterEntries)

IndexNames == { Null, Str(<<>>), Str(<<" ">>), Str(<<"orders">>) }

UpdateKeys == { <<"a">>, <<"d">> }
UpdateNestedKeys == { <<"b">> }
UpdateLeafValues == { Null, Num(1) }
UpdateNested == ObjectsOver(UpdateNestedKeys, UpdateLeafValues, MaxUpdateEntries)
UpdateArgs ==
    {Undef, Null}
        \cup ObjectsOver(UpdateKeys, UpdateLeafValues \cup UpdateNested, MaxUpdateEntries)

SecretReplies ==
    { ReplyError(<<"vault unreachable">>), ReplyValue(Undef),
      ReplyValue(Str(<<" ">>)), ReplyValue(Str(<<"secret">>)) }

CountReplies(field) ==
    { ReplyError(<<"connection refused">>), ReplyValue(Undef), ReplyValue(Obj(<<>>)) }
        \cup { ReplyValue(Obj(<< <<field, Num(n)>> >>)) : n \in 0..MaxCount }

DocKeys == { <<"id">>, <<"name">> }
DocValues == { Str(<<"abc">>) }
Documents == ObjectsOver(DocKeys, DocValues, MaxDocEntries)

\* The identity the store gives to the n-th document it receives
DocId(n) == Str(<<"doc", ToString(n)>>)
Ids == { Null, Str(<<>>), Str(<<" ">>) } \cup { DocId(n) : n \in 1..MaxDocs }

Sizes == {Undef} \cup { Num(n) : n \in 0..MaxHits }

MappingsFiles == { Null, Str(<<" ">>), Str(<<"orders.mapping.json">>) }
Mappings ==
    { Obj(<< << <<"dynamic">>, Str(<<"strict">>) >> >>),
      Obj(<< << <<"properties">>, Obj(<<>>) >> >>) }
FileReplies == { ReplyError(<<"ENOENT">>) } \cup { ReplyValue(m) : m \in Mappings }

\* Answers of the store client, as the service reads them
Hit(id, source) == Obj(<< << <<"_", "id">>, id >>, << <<"_", "source">>, source >> >>)
SearchResponse(hits) ==
    Obj(<< << <<"hits">>, Obj(<< << <<"hits">>, Arr(hits) >> >>) >> >>)
GetResponse(id, source) ==
    Obj(<< << <<"_", "id">>, id >>, << <<"found">>, Bool(TRUE) >>,
           << <<"_", "source">>, source >> >>)
GetResponseNotFound(id) ==
    Obj(<< << <<"_", "id">>, id >>, << <<"found">>, Bool(FALSE) >> >>)
IndexResponse(id) ==
    Obj(<< << <<"_", "id">>, id >>, << <<"result">>, Str(<<"created">>) >> >>)
Acknowledged == Obj(<< << <<"acknowledged">>, Bool(TRUE) >> >>)
NotFoundError == ReplyErrorStatus(<<"not", "_", "found">>, 404)
BadRequestError == ReplyErrorStatus(<<"bad", "_", "request">>, 400)
ConnectionError == ReplyError(<<"connection refused">>)

\* The size a search request asks for, capped by what the model lets a
\* store answer hold
HitsAllowed(request) ==
    IF request.params.size.v < MaxHits THEN request.params.size.v ELSE MaxHits

\* What a store whose content is not known may answer to a request
StoreReplies(request) ==
    CASE request.api = "updateByQuery" -> CountReplies(<<"updated">>)
      [] request.api = "deleteByQuery" -> CountReplies(<<"deleted">>)
      [] request.api = "indices.exists" ->
            { ConnectionError, ReplyValue(Bool(TRUE)), ReplyValue(Bool(FALSE)) }
      [] request.api = "indices.create" ->
            { ConnectionError, BadRequestError, ReplyValue(Acknowledged) }
      [] request.api = "index" ->
            { ConnectionError, BadRequestError, ReplyValue(IndexResponse(DocId(1))) }
      [] request.api = "search" ->
            { ConnectionError, NotFoundError }
                \cup { ReplyValue(SearchResponse(
                            [i \in 1..Len(sources) |-> Hit(DocId(i), sources[i])])) :
                        sources \in UNION { [1..n -> Documents] :
                                                n \in 0..HitsAllowed(request) } }
      [] request.api = "get" ->
            { ConnectionError, NotFoundError,
              ReplyValue(GetResponseNotFound(request.params.id)) }
                \cup { ReplyValue(GetResponse(request.params.id, d)) : d \in Documents }

----------------------------------------------------------------------------
(* The service *)

\* new Client(clientOptions): every construction yields a distinct object;
\* serial tells the first one constructed from the second
Client(clientOptions, serial) ==
    [t |-> "client", v |-> [node |-> clientOptions.node, auth |-> clientOptions.auth,
                            serial |-> serial]]

\* How many clients have been constructed when client is the latest
clientsConstructed(client) == IF client = Undef THEN 0 ELSE client.v.serial

NoCall ==
    [op |-> "none", filter |-> Undef, updateData |-> Undef, indexName |-> Undef,
     id |-> Undef, size |-> Undef, document |-> Undef, mappingsFile |-> Undef,
     mappings |-> Undef, node |-> Undef, apiKey |-> Undef, secretName |-> "",
     otherUpdateData |-> Undef]

Init ==
    /\ initialized = FALSE
    /\ esClient = Undef
    /\ secretsCache = [n \in SecretNames |-> Undef]
    /\ pc = "idle"
    /\ call = NoCall
    /\ storeCalls = <<>>
    /\ storeReply = NoReply
    /\ result = NoResult
    /\ storeIndices = <<>>
    /\ storeDocs = <<>>

\* elasticsearch.service.ts 27-57
onModuleInit ==
    /\ pc = "idle"
    /\ clientsConstructed(esClient) < MaxClients
    /\ \E urlReply \in SecretReplies, keyReply \in SecretReplies :
        LET kvKeyElasticUrl == "KEY_VAULT_KEY_ELASTICSEARCH_URL"
            kvKeyElasticApiKey == "KEY_VAULT_KEY_ELASTICSEARCH_API_KEY"
            first == getSecret(secretsCache, kvKeyElasticUrl, urlReply)
            node == IF Falsy(first.value) THEN Str(<<>>) ELSE first.value
            second == getSecret(first.cache, kvKeyElasticApiKey, keyReply)
            apiKey == IF Falsy(second.value) THEN Str(<<>>) ELSE second.value
            clientOptions ==
                [node |-> node,
                 auth |-> IF ~Falsy(apiKey) THEN [apiKey |-> apiKey] ELSE Undef]
        IN /\ secretsCache' = second.cache
           /\ call' = [NoCall EXCEPT !.op = "onModuleInit",
                                     !.node = first.value, !.apiKey = second.value]
           /\ IF isBlank(node)
              THEN /\ result' = Thrown("Error",
                          <<"onModuleInit(): ", kvKeyElasticUrl, " is empty or null !!">>)
                   /\ UNCHANGED <<esClient, initialized>>
              ELSE IF isBlank(apiKey)
              THEN /\ result' = Thrown("Error",
                          <<"onModuleInit(): ", kvKeyElasticApiKey, " is empty or null !!">>)
                   /\ UNCHANGED <<esClient, initialized>>
              ELSE /\ esClient' = Client(clientOptions, clientsConstructed(esClient) + 1)
                   /\ initialized' = TRUE
                   /\ result' = Returned(Undef)
    /\ pc' = "done"
    /\ UNCHANGED <<storeCalls, storeReply, storeIndices, storeDocs>>

\* An operation reaches its awaited store call, or ends before it
Proceed(started) ==
    /\ storeCalls' = storeCalls \o started.request
    /\ result' = started.result
    /\ pc' = IF started.kind = "await" THEN "awaitStore" ELSE "done"
    /\ UNCHANGED <<initialized, esClient, secretsCache, storeReply, storeIndices, storeDocs>>

updateByFilter ==
    /\ pc = "idle"
    /\ \E filter \in Filters, updateData \in UpdateArgs, indexName \in IndexNames :
        /\ call' = [NoCall EXCEPT !.op = "updateByFilter", !.filter = filter,
                                  !.updateData = updateData, !.indexName = indexName]
        /\ Proceed(updateByFilter_start(esClient, filter, updateData, indexName))

deleteByFilter ==
    /\ pc = "idle"
    /\ \E filter \in Filters, indexName \in IndexNames :
        /\ call' = [NoCall EXCEPT !.op = "deleteByFilter", !.filter = filter,
                                  !.indexName = indexName]
        /\ Proceed(deleteByFilter_start(esClient, filter, indexName))

createIndex ==
    /\ pc = "idle"
    /\ \E indexName \in IndexNames, mappingsFile \in MappingsFiles,
          fileReply \in FileReplies :
        LET loaded == loadMappings(indexName, mappingsFile, fileReply) IN
        /\ call' = [NoCall EXCEPT !.op = "createIndex", !.indexName = indexName,
                                  !.mappingsFile = mappingsFile,
                                  !.mappings = IF loaded.kind = "return"
                                               THEN loaded.value ELSE Undef]
        /\ Proceed(createIndex_start(esClient, indexName, mappingsFile, loaded))

indexDocument ==
    /\ pc = "idle"
    /\ Len(storeDocs) < MaxDocs
    /\ \E indexName \in IndexNames, document \in Documents :
        /\ call' = [NoCall EXCEPT !.op = "indexDocument", !.indexName = indexName,
                                  !.document = document]
        /\ Proceed(indexDocument_start(esClient, indexName, document))

getAllItems ==
    /\ pc = "idle"
    /\ \E indexName \in IndexNames, size \in Sizes :
        /\ call' = [NoCall EXCEPT !.op = "getAllItems", !.indexName = indexName,
                                  !.size = size]
        /\ Proceed(getAllItems_start(esClient, indexName, size))

getItemById ==
    /\ pc = "idle"
    /\ \E id \in Ids, indexName \in IndexNames :
        /\ call' = [NoCall EXCEPT !.op = "getItemById", !.id = id,
                                  !.indexName = indexName]
        /\ Proceed(getItemById_start(esClient, id, indexName))

\* What operation c does with the store's reply to its awaited request
Continue(c, request, reply) ==
    CASE c.op = "updateByFilter" -> Finished(updateByFilter_resume(reply, c.indexName))
      [] c.op = "deleteByFilter" -> Finished(deleteByFilter_resume(reply, c.indexName))
      [] c.op = "createIndex" -> createIndex_resume(request, reply, c.indexName, c.mappings)
      [] c.op = "indexDocument" -> Finished(indexDocument_resume(reply))
      [] c.op = "getAllItems" -> Finished(getAllItems_resume(reply, c.indexName))
      [] c.op = "getItemById" -> Finished(getItemById_resume(reply, c.id, c.indexName))

\* The operation in flight takes the reply to its awaited request and runs
\* to its next store call, or to its end
Resume(reply) ==
    LET next == Continue(call, storeCalls[Len(storeCalls)], reply) IN
    /\ storeReply' = reply
    /\ storeCalls' = storeCalls \o next.request
    /\ result' = next.result
    /\ pc' = IF next.kind = "await" THEN "awaitStore" ELSE "done"
    /\ UNCHANGED <<initialized, esClient, secretsCache, call>>

\* A store whose content is not tracked answers the awaited call
storeResponds ==
    /\ pc = "awaitStore"
    /\ \E reply \in StoreReplies(storeCalls[Len(storeCalls)]) : Resume(reply)
    /\ UNCHANGED <<storeIndices, storeDocs>>

\* The caller has its outcome; the service is free for the next request
complete ==
    /\ pc = "done"
    /\ pc' = "idle"
    /\ call' = NoCall
    /\ storeCalls' = <<>>
    /\ storeReply' = NoReply
    /\ result' = NoResult
    /\ UNCHANGED <<initialized, esClient, secretsCache, storeIndices, storeDocs>>

Next ==
    \/ onModuleInit
    \/ createIndex
    \/ indexDocument
    \/ getAllItems
    \/ getItemById
    \/ updateByFilter
    \/ deleteByFilter
    \/ storeResponds
    \/ complete

Spec == Init /\ [][Next]_vars

----------------------------------------------------------------------------
(* The same service in front of a store whose content is tracked: indices   *)
(* and documents are what the service's own calls have put there.           *)

indexExists(indices, index) == \E i \in 1..Len(indices) : indices[i].index = index

\* The documents of an index, in indexing order
RECURSIVE docsOf(_, _)
docsOf(docs, index) ==
    IF docs = <<>> THEN <<>>
    ELSE IF Head(docs).index = index
    THEN <<Head(docs)>> \o docsOf(Tail(docs), index)
    ELSE docsOf(Tail(docs), index)

isStored(docs, index, id) ==
    \E i \in 1..Len(docs) : docs[i].index = index /\ docs[i].id = id

storedDoc(docs, index, id) ==
    docs[CHOOSE i \in 1..Len(docs) : docs[i].index = index /\ docs[i].id = id]

\* The store executes a request: the answers it may give, each with the
\* content it then holds.  An index name must be non-blank; indexing into an
\* index that does not exist creates it without mappings; a document that is
\* not there is reported by found=false or by a 404 failure.
StoreExecutes(request, indices, docs) ==
    LET index == request.params.index
        same(reply) == [reply |-> reply, indices |-> indices, docs |-> docs]
    IN
    CASE request.api = "indices.exists" ->
            { same(ReplyValue(Bool(indexExists(indices, index)))) }
      [] request.api = "indices.create" ->
            IF indexExists(indices, index)
            THEN { same(BadRequestError) }
            ELSE { [reply |-> ReplyValue(Acknowledged),
                    indices |-> Append(indices,
                        [index |-> index, mappings |-> request.params.mappings]),
                    docs |-> docs] }
      [] request.api = "index" ->
            IF isBlank(index)
            THEN { same(BadRequestError) }
            ELSE LET id == DocId(Len(docs) + 1) IN
                 { [reply |-> ReplyValue(IndexResponse(id)),
                    indices |-> IF indexExists(indices, index) THEN indices
                                ELSE Append(indices, [index |-> index, mappings |-> Undef]),
                    docs |-> Append(docs, [index |-> index, id |-> id,
                                           source |-> request.params.document])] }
      [] request.api = "search" ->
            IF ~indexExists(indices, index)
            THEN { same(NotFoundError) }
            ELSE LET inIndex == docsOf(docs, index)
                     n == IF request.params.size.v < Len(inIndex)
                          THEN request.params.size.v ELSE Len(inIndex)
                 IN { same(ReplyValue(SearchResponse(
                        [i \in 1..n |-> Hit(inIndex[i].id, inIndex[i].source)]))) }
      [] request.api = "get" ->
            IF isStored(docs, index, request.params.id)
            THEN { same(ReplyValue(GetResponse(request.params.id,
                        storedDoc(docs, index, request.params.id).source))) }
            ELSE { same(NotFoundError),
                   same(ReplyValue(GetResponseNotFound(request.params.id))) }

\* The store executes the awaited call and answers
storeExecutes ==
    /\ pc = "awaitStore"
    /\ \E outcome \in StoreExecutes(storeCalls[Len(storeCalls)], storeIndices, storeDocs) :
        /\ storeIndices' = outcome.indices
        /\ storeDocs' = outcome.docs
        /\ Resume(outcome.reply)

NextStore ==
    \/ onModuleInit
    \/ createIndex
    \/ indexDocument
    \/ getAllItems
    \/ getItemById
    \/ storeExecutes
    \/ complete

SpecStore == Init /\ [][NextStore]_vars

----------------------------------------------------------------------------
(* The update-by-filter and delete-by-filter requests from the controller   *)
(* down: OrdersController (src/unnamed/part_004) awaits OrdersService       *)
(* (src/src/orders/orders.service.ts), which awaits updateByFilter or       *)
(* deleteByFilter.  After the operation has ended (pc = "done") the         *)
(* service layer returns (pc = "service"), then the controller answers      *)
(* (pc = "responded").                                                      *)

\* Mutant: what updateByFilter throws is passed on
updateOrder_rethrows(outcome) == outcome

\* orders.service.ts 88-96: outcome is how updateByFilter ended
updateOrder(outcome) ==
    IF outcome.kind = "throw" THEN Returned(Num(-1)) ELSE outcome

\* orders.service.ts 99-107: outcome is how deleteByFilter ended
deleteOrder(outcome) ==
    IF outcome.kind = "throw" THEN Returned(Num(-1)) ELSE outcome

\* OrdersController.INVALID_NUMBER
ctl_INVALID_NUMBER == -1

\* part_004 76-89: numRecs is what updateOrder returned
updateOrdersByFilter(numRecs) ==
    IF numRecs = Num(ctl_INVALID_NUMBER)
    THEN Thrown("InternalServerErrorException",
                <<"An unexpected error occurred during order update", ".">>)
    ELSE IF numRecs = Num(0)
    THEN Thrown("NotFoundException",
                <<"No orders found matching the provided filter",
                  ", or no update was necessary", ".">>)
    ELSE Returned(Obj(<< << <<"message">>,
                    Str(<<ToString(numRecs.v), " Orders updated successfully", ".">>) >> >>))

\* part_004 108-121: numRecs is what deleteOrder returned
deleteOrdersByFilter(numRecs) ==
    IF numRecs = Num(ctl_INVALID_NUMBER)
    THEN Thrown("InternalServerErrorException",
                <<"An unexpected error occurred during order deletion", ".">>)
    ELSE IF numRecs = Num(0)
    THEN Thrown("NotFoundException",
                <<"No orders found matching the provided filter", ".">>)
    ELSE Returned(Obj(<< << <<"message">>,
                    Str(<<ToString(numRecs.v), " Orders deleted successfully", ".">>) >> >>))

\* OrdersService.updateOrder / deleteOrder returns to the controller
ordersServiceReturns ==
    /\ pc = "done"
    /\ call.op \in {"updateByFilter", "deleteByFilter"}
    /\ result' = IF call.op = "updateByFilter" THEN updateOrder(result)
                 ELSE deleteOrder(result)
    /\ pc' = "service"
    /\ UNCHANGED <<initialized, esClient, secretsCache, call, storeCalls, storeReply,
                   storeIndices, storeDocs>>

\* The controller turns the number it got into its answer
controllerResponds ==
    /\ pc = "service"
    /\ result' = IF call.op = "updateByFilter" THEN updateOrdersByFilter(result.value)
                 ELSE deleteOrdersByFilter(result.value)
    /\ pc' = "responded"
    /\ UNCHANGED <<initialized, esClient, secretsCache, call, storeCalls, storeReply,
                   storeIndices, storeDocs>>

\* The answer has been sent; the next request may come
requestEnds ==
    /\ pc = "responded"
    /\ pc' = "idle"
    /\ call' = NoCall
    /\ storeCalls' = <<>>
    /\ storeReply' = NoReply
    /\ result' = NoResult
    /\ UNCHANGED <<initialized, esClient, secretsCache, storeIndices, storeDocs>>

\* onModuleInit has ended
initEnds == call.op = "onModuleInit" /\ complete

NextOrders ==
    \/ onModuleInit
    \/ initEnds
    \/ updateByFilter
    \/ deleteByFilter
    \/ storeResponds
    \/ ordersServiceReturns
    \/ controllerResponds
    \/ requestEnds

SpecOrders == Init /\ [][NextOrders]_vars

----------------------------------------------------------------------------
(* KeyVaultConfigService on its own: lookups of a secret, one at a time, as *)
(* onModuleInit awaits them, against a source that may answer differently   *)
(* each time.                                                               *)

\* What the secret source may answer to a lookup: as at start-up, or a value
\* that has been rotated since
SourceReplies == SecretReplies \cup { ReplyValue(Str(<<"rotated">>)) }

\* main.ts 107-114
KeyVault_getSecret ==
    /\ pc = "idle"
    /\ \E secretName \in SecretNames :
        /\ call' = [NoCall EXCEPT !.op = "getSecret", !.secretName = secretName]
        /\ Proceed(getSecret_start(secretsCache, secretName))

\* main.ts 114-126: the secret source answers and getSecret returns
secretSourceResponds ==
    /\ pc = "awaitStore"
    /\ call.op = "getSecret"
    /\ \E sourceReply \in SourceReplies :
        LET got == getSecret(secretsCache, call.secretName, sourceReply) IN
        /\ storeReply' = sourceReply
        /\ result' = Returned(got.value)
        /\ secretsCache' = got.cache
    /\ pc' = "done"
    /\ UNCHANGED <<initialized, esClient, call, storeCalls, storeIndices, storeDocs>>

NextSecrets ==
    \/ onModuleInit
    \/ KeyVault_getSecret
    \/ secretSourceResponds
    \/ complete

SpecSecrets == Init /\ [][NextSecrets]_vars

----------------------------------------------------------------------------
(* flattenObjectAndBuildScript on its own: the update object is drawn from  *)
(* FlattenInputs and the function is applied to it with empty accumulators, *)
(* as updateByFilter calls it (elasticsearch.service.ts 363-367).           *)

FlattenKeys == { <<"a">>, <<"d">>, <<"a", "_", "b">> }
FlattenNestedKeys == { <<"b">>, <<"c">> }
FlattenLeafValues == { Null, Num(2), Arr(<<Num(1)>>) }
FlattenNestedLeafValues == { Undef, Null, Num(1) }
FlattenNested ==
    ObjectsOver(FlattenNestedKeys, FlattenNestedLeafValues, MaxFlattenEntries)
\* {a: {b: {c: x}}} and its prunings: three levels of nesting
FlattenDeep ==
    ObjectsOver({ <<"a">> },
        ObjectsOver({ <<"b">> },
            ObjectsOver({ <<"c">> }, FlattenNestedLeafValues, MaxFlattenEntries),
            MaxFlattenEntries),
        MaxFlattenEntries)
FlattenInputs ==
    ObjectsOver(FlattenKeys, FlattenLeafValues \cup FlattenNested, MaxFlattenEntries)
        \cup FlattenDeep

InitFlatten ==
    /\ initialized = FALSE
    /\ esClient = Undef
    /\ secretsCache = [n \in SecretNames |-> Undef]
    /\ pc = "flatten"
    /\ \E obj \in FlattenInputs :
          call = [NoCall EXCEPT !.op = "flattenObjectAndBuildScript", !.updateData = obj]
    /\ storeCalls = <<>>
    /\ storeReply = NoReply
    /\ result = NoResult
    /\ storeIndices = <<>>
    /\ storeDocs = <<>>

applyFlatten ==
    /\ pc = "flatten"
    /\ result' = Returned(flattenObjectAndBuildScript(call.updateData, <<>>, <<>>, <<>>))
    /\ pc' = "done"
    /\ UNCHANGED <<initialized, esClient, secretsCache, call, storeCalls, storeReply,
                   storeIndices, storeDocs>>

NextFlatten == applyFlatten

SpecFlatten == InitFlatten /\ [][NextFlatten]_vars

----------------------------------------------------------------------------
(* The script of updateByFilter for two update objects side by side         *)
(* (elasticsearch.service.ts 363-377), to compare what each contributes to  *)
(* the source text and to the parameter table.                              *)

\* elasticsearch.service.ts 363-377: esScript
esScriptOf(updateData) ==
    LET flat == flattenObjectAndBuildScript(updateData, <<>>, <<>>, <<>>)
    IN [source |-> Join(flat.scriptLines, <<" ">>), params |-> flat.params]

PairKeys == { <<"a">>, <<"d">> }
PairNestedKeys == { <<"b">> }
PairLeafValues == { Null, Num(1), Num(2) }
PairNested == ObjectsOver(PairNestedKeys, PairLeafValues, MaxUpdateEntries)
PairInputs == ObjectsOver(PairKeys, PairLeafValues \cup PairNested, MaxFlattenEntries)

InitScriptPair ==
    /\ initialized = FALSE
    /\ esClient = Undef
    /\ secretsCache = [n \in SecretNames |-> Undef]
    /\ pc = "flatten"
    /\ \E obj \in PairInputs, other \in PairInputs :
          call = [NoCall EXCEPT !.op = "esScript", !.updateData = obj,
                                !.otherUpdateData = other]
    /\ storeCalls = <<>>
    /\ storeReply = NoReply
    /\ result = NoResult
    /\ storeIndices = <<>>
    /\ storeDocs = <<>>

buildScripts ==
    /\ pc = "flatten"
    /\ result' = Returned(<<esScriptOf(call.updateData), esScriptOf(call.otherUpdateData)>>)
    /\ pc' = "done"
    /\ UNCHANGED <<initialized, esClient, secretsCache, call, storeCalls, storeReply,
                   storeIndices, storeDocs>>

NextScriptPair == buildScripts

SpecScriptPair == InitScriptPair /\ [][NextScriptPair]_vars

----------------------------------------------------------------------------
(* Vocabulary of the properties *)

\* The key paths of the leaves of an update object that carry a value: a
\* scalar or an array, neither null nor undefined, at any depth
RECURSIVE LeafPaths(_)
LeafPaths(obj) ==
    UNION { LET k == obj.v[i][1]
                x == obj.v[i][2]
            IN IF x.t = "object" THEN { <<k>> \o p : p \in LeafPaths(x) }
               ELSE IF x.t \in {"undefined", "null"} THEN {}
               ELSE { <<k>> }
            : i \in 1..Len(obj.v) }

\* The value an object holds at a key path
RECURSIVE ValueAt(_, _)
ValueAt(obj, path) ==
    LET i == CHOOSE i \in 1..Len(obj.v) : obj.v[i][1] = Head(path)
    IN IF Len(path) = 1 THEN obj.v[i][2] ELSE ValueAt(obj.v[i][2], Tail(path))

\* The positions, level by level, of the entries a key path goes through
RECURSIVE IndexPath(_, _)
IndexPath(obj, path) ==
    LET i == CHOOSE i \in 1..Len(obj.v) : obj.v[i][1] = Head(path)
    IN IF Len(path) = 1 THEN <<i>> ELSE <<i>> \o IndexPath(obj.v[i][2], Tail(path))

\* s comes before t in depth-first order
VisitedBefore(s, t) ==
    \E k \in 1..Len(s) :
        /\ k <= Len(t)
        /\ \A m \in 1..(k - 1) : s[m] = t[m]
        /\ s[k] < t[k]

\* a.b.c for the key path <<a, b, c>>
DottedPath(path) ==
    [i \in 1..(2 * Len(path) - 1) |-> IF i % 2 = 1 THEN path[(i + 1) \div 2] ELSE <<".">>]

RECURSIVE Concat(_)
Concat(seqs) == IF seqs = <<>> THEN <<>> ELSE Head(seqs) \o Concat(Tail(seqs))

Dotted(path) == Concat(DottedPath(path))

\* The field an assignment writes and the parameter it reads
AssignMark(line) == CHOOSE i \in 1..Len(line) : line[i] = " = params."
LineField(line) == SubSeq(line, 2, AssignMark(line) - 1)
LineParam(line) == SubSeq(line, AssignMark(line) + 1, Len(line) - 1)
IsAssignment(line) ==
    /\ Len(line) >= 5
    /\ line[1] = "ctx._source."
    /\ line[Len(line)] = ";"
    /\ \E i \in 2..(Len(line) - 1) : line[i] = " = params."

HasParam(params, name) == \E i \in 1..Len(params) : params[i][1] = name
ParamValue(params, name) ==
    params[CHOOSE i \in 1..Len(params) : params[i][1] = name][2]

Flattened ==
    pc = "done" /\ call.op = "flattenObjectAndBuildScript"

\* {a: {b: 1, c: null}, d: 2}
ExampleUpdate ==
    Obj(<< << <<"a">>, Obj(<< << <<"b">>, Num(1) >>, << <<"c">>, Null >> >>) >>,
           << <<"d">>, Num(2) >> >>)

----------------------------------------------------------------------------
(* C8: flattenObjectAndBuildScript emits exactly one assignment per leaf    *)
(* that carries a value (scalar or array, not null/undefined, at any       *)
(* depth), to the dotted path of that leaf, in depth-first key order, and  *)
(* nothing for an object whose leaves are all null/undefined;              *)
(* {a:{b:1,c:null},d:2} yields the two assignments to a.b and d.           *)
C8_OneAssignmentPerLeaf ==
    Flattened =>
        LET obj == call.updateData
            lines == result.value.scriptLines
            leaves == LeafPaths(obj)
            leafOf(line) == CHOOSE p \in leaves : Dotted(p) = LineField(line)
        IN /\ Len(lines) = Cardinality(leaves)
           /\ \A i \in 1..Len(lines) :
                /\ IsAssignment(lines[i])
                /\ \E p \in leaves : Dotted(p) = LineField(lines[i])
           /\ \A i, j \in 1..Len(lines) :
                i < j => VisitedBefore(IndexPath(obj, leafOf(lines[i])),
                                       IndexPath(obj, leafOf(lines[j])))
           /\ (obj = ExampleUpdate =>
                 [i \in 1..Len(lines) |-> LineField(lines[i])]
                    = << <<"a", ".", "b">>, <<"d">> >>)

\* C8 witness: the example object has been flattened into two assignments
C8_Witness ==
    /\ Flattened
    /\ call.updateData = ExampleUpdate
    /\ Len(result.value.scriptLines) = 2

----------------------------------------------------------------------------
(* C9: distinct flattened paths get distinct parameter names: the parameter *)
(* table has one entry per emitted assignment and each assignment's        *)
(* parameter holds the value supplied for that assignment's own path.      *)
C9_ParameterPerAssignment ==
    Flattened =>
        LET obj == call.updateData
            lines == result.value.scriptLines
            params == result.value.params
            leaves == LeafPaths(obj)
            leafOf(line) == CHOOSE p \in leaves : Dotted(p) = LineField(line)
        IN /\ Len(params) = Len(lines)
           /\ \A i \in 1..Len(lines) :
                /\ HasParam(params, LineParam(lines[i]))
                /\ ParamValue(params, LineParam(lines[i])) = ValueAt(obj, leafOf(lines[i]))

----------------------------------------------------------------------------
(* Vocabulary of the properties about updateByFilter and deleteByFilter *)

Updating == call.op = "updateByFilter" /\ pc \in {"awaitStore", "done"}
Deleting == call.op = "deleteByFilter" /\ pc \in {"awaitStore", "done"}
Mutating == Updating \/ Deleting

IsMutatingCall(c) == c.api \in {"updateByQuery", "deleteByQuery"}
QueryOf(c) == IF c.api = "updateByQuery" THEN c.params.body.query ELSE c.params.query

IsIdentityClause(c) == "ids" \in DOMAIN c
IsTermClause(c) == "term" \in DOMAIN c
IsConjunction(q) == "bool" \in DOMAIN q
ClausesOf(q) == IF IsConjunction(q) THEN q.bool.must ELSE <<q>>

\* null, undefined, or an object with no entry
FilterIsEmpty(f) == f \in {Undef, Null} \/ (f.t = "object" /\ Len(f.v) = 0)
HasKey(f, key) == \E i \in 1..Len(f.v) : f.v[i][1] = key
NonBlankString(x) == x.t = "string" /\ \E i \in 1..Len(x.v) : x.v[i] # " "
BlankString(x) == x.t = "string" /\ \A i \in 1..Len(x.v) : x.v[i] = " "
NullOrUndefined(x) == x.t \in {"null", "undefined"}

Sentinel == Returned(Num(-1))
IsBadRequest(r) == r.kind = "throw" /\ r.exception = "BadRequestException"

----------------------------------------------------------------------------
----------------------------------------------------------------------------
----------------------------------------------------------------------------
----------------------------------------------------------------------------
(* C4: when the store call completes and reports zero updated/deleted       *)
(* documents, the operation returns 0, never the sentinel -1.              *)
C4_ZeroMatchesReturnsZero ==
    (Mutating /\ pc = "done" /\ storeReply.kind = "value"
        /\ storeReply.value.t = "object"
        /\ \E i \in 1..Len(storeReply.value.v) : storeReply.value.v[i][2] = Num(0))
    => result = Returned(Num(0))

\* C4 is refuted by: the store answers {updated: 0} (or {deleted: 0}) and the
\* operation returns -1

----------------------------------------------------------------------------
(* C5: for a filter whose id is a non-blank string, the query sent by       *)
(* updateByFilter/deleteByFilter holds exactly one identity clause, whose  *)
(* value list is exactly that id, alone or inside the conjunction, so the  *)
(* mutation is confined to that identity whatever else the filter holds.   *)
C5_IdentityClauseForId ==
    (Mutating /\ call.filter.t = "object"
        /\ NonBlankString(GetProperty(call.filter, <<"id">>)))
    => \A n \in 1..Len(storeCalls) :
          LET clauses == ClausesOf(QueryOf(storeCalls[n]))
              identity == { i \in 1..Len(clauses) : IsIdentityClause(clauses[i]) }
          IN /\ Cardinality(identity) = 1
             /\ \A i \in identity :
                  clauses[i].ids.values = << GetProperty(call.filter, <<"id">>) >>

\* C5 witness: a delete whose filter holds a non-blank id and another field
\* has issued its store call
C5_Witness ==
    /\ Deleting
    /\ call.filter.t = "object"
    /\ NonBlankString(GetProperty(call.filter, <<"id">>))
    /\ Len(call.filter.v) >= 2
    /\ Len(storeCalls) = 1

----------------------------------------------------------------------------
(* C6: for a non-empty filter without an id key, the query sent has exactly *)
(* one term clause per entry whose value is not null/undefined, in the     *)
(* filter's order; one such entry gives the bare clause, two or more give  *)
(* a single conjunction of that many clauses.                              *)
C6_TermClausePerEntry ==
    (Mutating /\ call.filter.t = "object" /\ Len(call.filter.v) > 0
        /\ ~HasKey(call.filter, <<"id">>))
    => \A n \in 1..Len(storeCalls) :
          LET entries == call.filter.v
              kept == { i \in 1..Len(entries) : ~NullOrUndefined(entries[i][2]) }
              query == QueryOf(storeCalls[n])
              clauses == ClausesOf(query)
          IN /\ Len(clauses) = Cardinality(kept)
             /\ IsConjunction(query) <=> Cardinality(kept) >= 2
             /\ \E at \in [1..Len(clauses) -> kept] :
                  /\ \A i, j \in 1..Len(clauses) : i < j => at[i] < at[j]
                  /\ \A i \in 1..Len(clauses) :
                        /\ IsTermClause(clauses[i])
                        /\ clauses[i].term.field = entries[at[i]][1]
                        /\ clauses[i].term.value = entries[at[i]][2]

\* C6 witnesses: a filter without id sent as a conjunction of term clauses
C6_Witness ==
    /\ Updating
    /\ call.filter.t = "object"
    /\ ~HasKey(call.filter, <<"id">>)
    /\ Len(storeCalls) = 1
    /\ IsConjunction(QueryOf(storeCalls[1]))
    /\ Len(ClausesOf(QueryOf(storeCalls[1]))) >= 2

----------------------------------------------------------------------------
(* C7 as stated, on a service that is ready: a non-empty filter all of      *)
(* whose values are null, undefined or blank (a blank string on any field, *)
(* id or not) makes updateByFilter and deleteByFilter fail with BadRequest *)
(* without a store call.                                                   *)
C7_Original ==
    (Mutating /\ initialized /\ call.filter.t = "object" /\ Len(call.filter.v) > 0
        /\ \A i \in 1..Len(call.filter.v) :
              NullOrUndefined(call.filter.v[i][2]) \/ BlankString(call.filter.v[i][2]))
    => (IsBadRequest(result) /\ storeCalls = <<>>)

(* C7 amended: a non-empty filter whose id, if present, is null, undefined  *)
(* or blank and whose other values are all null or undefined makes         *)
(* updateByFilter and deleteByFilter fail with BadRequest without a store  *)
(* call; a blank string on a field other than id is a term clause.         *)
C7_AllEmptyFilterRejected ==
    (Mutating /\ call.filter.t = "object" /\ Len(call.filter.v) > 0
        /\ \A i \in 1..Len(call.filter.v) :
              \/ NullOrUndefined(call.filter.v[i][2])
              \/ call.filter.v[i][1] = <<"id">> /\ BlankString(call.filter.v[i][2]))
    => (IsBadRequest(result) /\ storeCalls = <<>> /\ pc = "done")

\* C7 witness: a filter of a blank id and a null field was rejected as all empty
C7_Witness ==
    /\ Mutating
    /\ call.filter.t = "object"
    /\ Len(call.filter.v) = 2
    /\ BlankString(GetProperty(call.filter, <<"id">>))
    /\ \E i \in 1..2 : call.filter.v[i][2] = Null
    /\ result = Thrown("BadRequestException", <<"Provided filter fields are all empty !!">>)

----------------------------------------------------------------------------
----------------------------------------------------------------------------
(* Vocabulary of the properties on readiness, reads and index creation *)

DataOps ==
    {"indexDocument", "getAllItems", "getItemById", "updateByFilter",
     "deleteByFilter", "createIndex"}

\* The operation named op is in flight or has just ended
InFlight(op) == call.op = op /\ pc \in {"awaitStore", "done"}
Ended(op) == call.op = op /\ pc = "done"

AbsentOrBlank(x) == NullOrUndefined(x) \/ BlankString(x)

\* An error that tells the caller the service is not initialized
IsNotReadyError(r) ==
    /\ r.kind = "throw"
    /\ \E i \in 1..Len(r.message) :
          r.message[i] \in {"not initialized", "service not ready"}

\* sub occurs in s as a run of consecutive tokens
Contains(s, sub) ==
    \E i \in 0..(Len(s) - Len(sub)) : SubSeq(s, i + 1, i + Len(sub)) = sub

\* The operation in flight was given a blank required string
BlankArgument ==
    \/ /\ call.op \in {"getAllItems", "updateByFilter", "deleteByFilter"}
       /\ AbsentOrBlank(call.indexName)
    \/ /\ call.op = "getItemById"
       /\ AbsentOrBlank(call.id) \/ AbsentOrBlank(call.indexName)
    \/ /\ call.op = "createIndex"
       /\ AbsentOrBlank(call.indexName) \/ AbsentOrBlank(call.mappingsFile)

----------------------------------------------------------------------------
(* C11 as stated: a data operation invoked while the service is            *)
(* Uninitialized ends in an explicit 'not initialized / service not ready'  *)
(* error, never in a normal return value, and issues no store call.  The    *)
(* operations looked at are those whose required strings are not blank, so  *)
(* that no rejection of the arguments stands in for the readiness check.    *)
C11_UninitializedFailsFast ==
    ((\E op \in DataOps : Ended(op)) /\ ~initialized /\ ~BlankArgument) =>
        (IsNotReadyError(result) /\ storeCalls = <<>>)

----------------------------------------------------------------------------
(* C12: when the endpoint secret or the credential secret resolves to      *)
(* nothing or to a blank string, onModuleInit throws, the readiness flag is *)
(* false and no client has been constructed.                                *)
C12_BlankSecretIsFatal ==
    (Ended("onModuleInit") /\ (AbsentOrBlank(call.node) \/ AbsentOrBlank(call.apiKey))) =>
        (result.kind = "throw" /\ initialized = FALSE /\ esClient = Undef)

\* C12 witness: the endpoint resolved, the credential resolved to a blank
\* string, and onModuleInit threw
C12_Witness ==
    /\ Ended("onModuleInit")
    /\ NonBlankString(call.node)
    /\ call.apiKey = Str(<<" ">>)
    /\ result.kind = "throw"
    /\ ~initialized

----------------------------------------------------------------------------
(* C13 as stated: in every step the readiness flag, once true, stays true,  *)
(* and the connection handle, once assigned, is never assigned again.       *)
C13_SingleOneWayInitialization ==
    [][ /\ initialized => initialized'
        /\ esClient # Undef => esClient' = esClient ]_vars

----------------------------------------------------------------------------
(* C14 as stated: getItemById for the identity under which indexDocument   *)
(* stored document d (nothing having changed it since) returns a non-null   *)
(* item whose id is that identity and whose other fields are d's fields.    *)
C14_RoundTrip ==
    (Ended("getItemById") /\ isStored(storeDocs, call.indexName, call.id)) =>
        LET d == storedDoc(storeDocs, call.indexName, call.id).source IN
        /\ result.kind = "return"
        /\ result.value.t = "object"
        /\ GetProperty(result.value, <<"id">>) = call.id
        /\ \A i \in 1..Len(d.v) :
              d.v[i][1] # <<"id">> => GetProperty(result.value, d.v[i][1]) = d.v[i][2]
        /\ \A i \in 1..Len(result.value.v) :
              result.value.v[i][1] # <<"id">> => HasKey(d, result.value.v[i][1])

----------------------------------------------------------------------------
(* C15: getItemById on a Ready service, for an identity the store does not  *)
(* hold, returns null, whether the store answers found=false or fails with  *)
(* status 404.                                                              *)
C15_MissingIsNull ==
    (Ended("getItemById") /\ storeCalls # <<>>
        /\ ~isStored(storeDocs, call.indexName, call.id)) =>
        /\ \/ storeReply = NotFoundError
           \/ storeReply.kind = "value"
                /\ GetProperty(storeReply.value, <<"found">>) = Bool(FALSE)
        /\ result = Returned(Null)

\* C15 witness: the store failed with 404 and null was returned
C15_Witness ==
    /\ Ended("getItemById")
    /\ storeReply.kind = "error"
    /\ storeReply.value = Num(404)
    /\ result = Returned(Null)

----------------------------------------------------------------------------
(* C16: getAllItems asks the store for at most N hits and returns at most N *)
(* items, N being the size given, or 1000 when none is given, also when the *)
(* index holds more than N documents.                                       *)
C16_AtMostNItems ==
    InFlight("getAllItems") =>
        LET N == IF call.size = Undef THEN 1000 ELSE call.size.v IN
        /\ storeCalls # <<>> => storeCalls[1].params.size = Num(N)
        /\ result.kind = "return" =>
              (result.value.t = "array" /\ Len(result.value.v) <= N)

\* C16 witness: the index holds two documents, one was asked for and one
\* came back
C16_Witness ==
    /\ Ended("getAllItems")
    /\ call.size = Num(1)
    /\ Len(docsOf(storeDocs, call.indexName)) > 1
    /\ result.kind = "return"
    /\ Len(result.value.v) = 1

----------------------------------------------------------------------------
(* C17: createIndex on a Ready service, its schema loaded, first issues one *)
(* existence check; it issues a create call, one, with the loaded schema,   *)
(* exactly when the index is absent; no step changes or duplicates an       *)
(* index that exists.                                                       *)
C17_Calls ==
    (InFlight("createIndex") /\ storeCalls # <<>>) =>
        /\ storeCalls[1] = [api |-> "indices.exists", params |-> [index |-> call.indexName]]
        /\ Len(storeCalls) <= 2
        /\ Len(storeCalls) = 2 =>
              storeCalls[2] = [api |-> "indices.create",
                               params |-> [index |-> call.indexName,
                                           mappings |-> call.mappings]]
        /\ (pc = "awaitStore" /\ Len(storeCalls) = 2) =>
              ~indexExists(storeIndices, call.indexName)
        /\ (pc = "done" /\ result.kind = "return") =>
              indexExists(storeIndices, call.indexName)
        /\ \A i, j \in 1..Len(storeIndices) :
              storeIndices[i].index = storeIndices[j].index => i = j

C17_Step ==
    /\ Len(storeIndices') >= Len(storeIndices)
    /\ \A i \in 1..Len(storeIndices) : storeIndices'[i] = storeIndices[i]
    /\ (InFlight("createIndex") /\ pc = "awaitStore" /\ Len(storeCalls) = 1
            /\ ~indexExists(storeIndices, call.indexName)) =>
          (Len(storeCalls') = 2 /\ pc' = "awaitStore")
    /\ (InFlight("createIndex") /\ pc = "awaitStore" /\ Len(storeCalls) = 1
            /\ indexExists(storeIndices, call.indexName)) =>
          (storeCalls' = storeCalls /\ pc' = "done" /\ result' = Returned(Undef))

C17_CreateIfAbsent == [](C17_Calls) /\ [][C17_Step]_vars

\* C17 witness: createIndex has ended on an index that exists with another
\* schema than the one it loaded: one existence check, no create
C17_Witness ==
    /\ Ended("createIndex")
    /\ result.kind = "return"
    /\ Len(storeCalls) = 1
    /\ \E i \in 1..Len(storeIndices) :
          /\ storeIndices[i].index = call.indexName
          /\ storeIndices[i].mappings \in Mappings
          /\ storeIndices[i].mappings # call.mappings

----------------------------------------------------------------------------
(* C18: when the store call of an operation fails (a 404 answered to        *)
(* getItemById aside) the operation ends in a thrown error: createIndex and *)
(* indexDocument throw the store's error itself, the others an              *)
(* InternalServerErrorException whose message contains the store's.         *)
C18_StoreFailureSurfaces ==
    (pc = "done" /\ storeReply.kind = "error"
        /\ ~(call.op = "getItemById" /\ storeReply.value = Num(404))) =>
        /\ result.kind = "throw"
        /\ call.op \in {"createIndex", "indexDocument"} =>
              /\ result.exception # "InternalServerErrorException"
              /\ result.message = storeReply.message
              /\ result.value = storeReply.value
        /\ call.op \in {"getAllItems", "getItemById", "updateByFilter", "deleteByFilter"} =>
              /\ result.exception = "InternalServerErrorException"
              /\ Contains(result.message, storeReply.message)

\* C18 witness: the create call of createIndex failed after the existence
\* check had answered, and createIndex threw
C18_Witness ==
    /\ Ended("createIndex")
    /\ Len(storeCalls) = 2
    /\ storeReply.kind = "error"
    /\ result.kind = "throw"

----------------------------------------------------------------------------
(* C19: an operation given a blank required string (null, empty or          *)
(* whitespace only) issues no store call and throws an error that reports   *)
(* the input: BadRequestException, or for createIndex the Error '<argument> *)
(* is empty or null !!'.                                                    *)
C19_IsInvalidInput(r) ==
    \/ IsBadRequest(r)
    \/ /\ call.op = "createIndex"
       /\ r.kind = "throw"
       /\ r.exception = "Error"
       /\ r.message \in { <<"indexName is empty or null !!">>,
                          <<"mappingsFile is empty or null !!">> }

C19_BlankRejectedBeforeStore ==
    (pc \in {"awaitStore", "done"} /\ BlankArgument) =>
        (pc = "done" /\ C19_IsInvalidInput(result) /\ storeCalls = <<>>)

\* C19 witness: getItemById with a whitespace-only id on a Ready service
C19_Witness ==
    /\ Ended("getItemById")
    /\ initialized
    /\ call.id = Str(<<" ">>)
    /\ NonBlankString(call.indexName)
    /\ IsBadRequest(result)
    /\ storeCalls = <<>>

----------------------------------------------------------------------------
(* C20: on a Ready service, updateByFilter with a non-blank index, a filter *)
(* yielding a clause and an update yielding an operation has issued exactly *)
(* one store call, update-by-query with the built query, the script (lines  *)
(* in emission order, parameter table) and refresh=true; deleteByFilter     *)
(* likewise exactly one delete-by-query with refresh=true; the count stays  *)
(* one when the store fails.                                                *)
C20_UpdateArgsValid ==
    /\ NonBlankString(call.indexName)
    /\ ~FilterIsEmpty(call.filter)
    /\ upd_queryParts(call.filter) # <<>>
    /\ call.updateData.t = "object"
    /\ LeafPaths(call.updateData) # {}

C20_DeleteArgsValid ==
    /\ NonBlankString(call.indexName)
    /\ ~FilterIsEmpty(call.filter)
    /\ del_queryParts(call.filter) # <<>>

C20_SingleStoreCall ==
    /\ (Updating /\ initialized /\ C20_UpdateArgsValid) =>
          LET flat == flattenObjectAndBuildScript(call.updateData, <<>>, <<>>, <<>>) IN
          storeCalls =
            << [api |-> "updateByQuery",
                params |-> [index |-> call.indexName,
                            body |-> [query |-> upd_esQuery(upd_queryParts(call.filter)),
                                      script |-> [source |-> Join(flat.scriptLines, <<" ">>),
                                                  params |-> flat.params]],
                            refresh |-> TRUE]] >>
    /\ (Deleting /\ initialized /\ C20_DeleteArgsValid) =>
          storeCalls =
            << [api |-> "deleteByQuery",
                params |-> [index |-> call.indexName,
                            query |-> del_esQuery(del_queryParts(call.filter)),
                            refresh |-> TRUE]] >>

\* C20 witness: the update-by-query call failed and the update ended with
\* that one call
C20_Witness ==
    /\ Updating
    /\ initialized
    /\ C20_UpdateArgsValid
    /\ pc = "done"
    /\ storeReply.kind = "error"
    /\ Len(storeCalls) = 1

----------------------------------------------------------------------------
(* C21: a value that getSecret got from the secret source is cached under   *)
(* its name and never replaced; a lookup of a cached name returns the       *)
(* cached value and issues no call to the source; a lookup that failed or   *)
(* found no value leaves the cache as it was, and a lookup of a name that   *)
(* is not cached calls the source.                                          *)
C21_Step ==
    /\ \A k \in SecretNames :
          secretsCache[k] # Undef => secretsCache'[k] = secretsCache[k]
    /\ (pc = "idle" /\ call'.op = "getSecret") =>
          LET k == call'.secretName IN
          IF secretsCache[k] # Undef
          THEN /\ pc' = "done"
               /\ result' = Returned(secretsCache[k])
               /\ storeCalls' = <<>>
          ELSE /\ pc' = "awaitStore"
               /\ storeCalls' = << [api |-> "secretClient.getSecret",
                                    params |-> [name |-> k]] >>
    /\ (pc = "awaitStore" /\ call.op = "getSecret" /\ pc' = "done") =>
          LET k == call.secretName IN
          /\ result'.kind = "return"
          /\ IF storeReply'.kind = "value" /\ ~NullOrUndefined(storeReply'.value)
                  /\ storeReply'.value # Str(<<>>)
             THEN /\ result'.value = storeReply'.value
                  /\ secretsCache'[k] = storeReply'.value
             ELSE /\ result'.value = Undef
                  /\ secretsCache' = secretsCache

C21_SecretCache == [][C21_Step]_vars

\* C21 witness: a lookup answered from the cache, no source call issued
C21_Witness ==
    /\ call.op = "getSecret"
    /\ pc = "done"
    /\ storeCalls = <<>>
    /\ result = Returned(Str(<<"secret">>))
    /\ secretsCache[call.secretName] = Str(<<"secret">>)

----------------------------------------------------------------------------
(* Vocabulary of the properties on the controller's answers *)

Responded(op) == call.op = op /\ pc = "responded"

\* The store completed the call and reported zero affected documents
ZeroAffected ==
    /\ storeReply.kind = "value"
    /\ storeReply.value.t = "object"
    /\ \/ call.op = "updateByFilter"
            /\ GetProperty(storeReply.value, <<"updated">>) = Num(0)
       \/ call.op = "deleteByFilter"
            /\ GetProperty(storeReply.value, <<"deleted">>) = Num(0)

\* A filter with entries, every value of which is null or undefined
OnlyNullValues(f) ==
    /\ f.t = "object"
    /\ Len(f.v) > 0
    /\ \A i \in 1..Len(f.v) : NullOrUndefined(f.v[i][2])

----------------------------------------------------------------------------
(* C22 as stated: when the store completed an update-by-query or            *)
(* delete-by-query call and reported zero affected documents, the           *)
(* controller answers NotFound (404) 'No orders found matching the provided *)
(* filter'.                                                                 *)
C22_ZeroMatchesNotFound ==
    ((Responded("updateByFilter") \/ Responded("deleteByFilter")) /\ ZeroAffected) =>
        /\ result.kind = "throw"
        /\ result.exception = "NotFoundException"
        /\ Head(result.message) = "No orders found matching the provided filter"

----------------------------------------------------------------------------
(* C23 as stated: on a Ready service with a configured index name, a        *)
(* request whose filter holds only null values (its update data, if any,    *)
(* being valid), and an update request with a usable filter whose update    *)
(* data holds no non-null field, are answered with BadRequestException      *)
(* (400), not with InternalServerErrorException (500).                      *)
C23_InvalidRequestIsBadRequest ==
    /\ ((Responded("updateByFilter") \/ Responded("deleteByFilter"))
            /\ initialized
            /\ NonBlankString(call.indexName)
            /\ OnlyNullValues(call.filter)
            /\ (call.op = "updateByFilter" =>
                  (call.updateData.t = "object" /\ LeafPaths(call.updateData) # {}))) =>
          (result.kind = "throw" /\ result.exception = "BadRequestException")
    /\ (Responded("updateByFilter")
            /\ initialized
            /\ NonBlankString(call.indexName)
            /\ call.filter.t = "object"
            /\ (\E i \in 1..Len(call.filter.v) : NonBlankString(call.filter.v[i][2]))
            /\ call.updateData.t = "object"
            /\ LeafPaths(call.updateData) = {}) =>
          (result.kind = "throw" /\ result.exception = "BadRequestException")

----------------------------------------------------------------------------
(* C25: OrdersService.updateOrder and deleteOrder return, never throw: the  *)
(* sentinel -1 when updateByFilter / deleteByFilter threw, and otherwise    *)
(* the very value it returned.                                              *)
C25_Step ==
    (pc = "done" /\ pc' = "service") =>
        /\ result'.kind = "return"
        /\ result.kind = "throw" => result' = Returned(Num(-1))
        /\ result.kind = "return" => result' = result

C25_ServiceNeverThrows == [][C25_Step]_vars

\* C25 witness: the store call of an update failed, updateByFilter threw and
\* updateOrder returned the sentinel
C25_Witness ==
    /\ call.op = "updateByFilter"
    /\ pc = "service"
    /\ storeReply.kind = "error"
    /\ result = Returned(Num(-1))

----------------------------------------------------------------------------
(* C24: when updateByFilter or deleteByFilter returns after its store call, *)
(* it returns the count the store reported (updated, deleted) if that is a  *)
(* positive number, and the sentinel -1 if the response is missing or       *)
(* reports no count or zero; it returns nothing else.                       *)
C24_ReportedCount ==
    IF storeReply.kind = "value" /\ storeReply.value.t = "object"
    THEN GetProperty(storeReply.value,
                     IF call.op = "updateByFilter" THEN <<"updated">> ELSE <<"deleted">>)
    ELSE Undef

C24_CountOrSentinel ==
    ((Ended("updateByFilter") \/ Ended("deleteByFilter"))
        /\ storeCalls # <<>> /\ result.kind = "return") =>
        IF C24_ReportedCount.t = "number" /\ C24_ReportedCount.v > 0
        THEN result = Returned(C24_ReportedCount)
        ELSE result = Returned(Num(-1))

\* C24 witness: the store reported two updated documents and 2 was returned
C24_Witness ==
    /\ Ended("updateByFilter")
    /\ storeReply = ReplyValue(Obj(<< << <<"updated">>, Num(2) >> >>))
    /\ result = Returned(Num(2))

----------------------------------------------------------------------------
(* Two callers of createIndex on one Ready service and one store.  Each     *)
(* caller runs createIndex (elasticsearch.service.ts 94-130) once; its      *)
(* awaits (112, 116) are the points where the other caller's steps and the  *)
(* store's execution of a request come in between.  Here pc, call,          *)
(* storeCalls, storeReply and result hold one value per caller.             *)

Callers == {1, 2}

\* The service after onModuleInit constructed its client from two resolved
\* secrets (34-55)
ReadyClient ==
    Client([node |-> Str(<<"secret">>), auth |-> [apiKey |-> Str(<<"secret">>)]], 1)

InitInterleaved ==
    /\ initialized = TRUE
    /\ esClient = ReadyClient
    /\ secretsCache = [n \in SecretNames |-> Str(<<"secret">>)]
    /\ pc = [p \in Callers |-> "idle"]
    /\ call = [p \in Callers |-> NoCall]
    /\ storeCalls = [p \in Callers |-> <<>>]
    /\ storeReply = [p \in Callers |-> NoReply]
    /\ result = [p \in Callers |-> NoResult]
    /\ storeIndices = <<>>
    /\ storeDocs = <<>>

\* elasticsearch.service.ts 94-112: the caller runs up to its first await
callerCreatesIndex(p) ==
    /\ pc[p] = "idle"
    /\ \E indexName \in IndexNames, mappingsFile \in MappingsFiles,
          fileReply \in FileReplies :
        LET loaded == loadMappings(indexName, mappingsFile, fileReply)
            started == createIndex_start(esClient, indexName, mappingsFile, loaded)
        IN /\ call' = [call EXCEPT ![p] =
                        [NoCall EXCEPT !.op = "createIndex", !.indexName = indexName,
                                       !.mappingsFile = mappingsFile,
                                       !.mappings = IF loaded.kind = "return"
                                                    THEN loaded.value ELSE Undef]]
           /\ storeCalls' = [storeCalls EXCEPT ![p] = started.request]
           /\ result' = [result EXCEPT ![p] = started.result]
           /\ pc' = [pc EXCEPT ![p] = IF started.kind = "await"
                                      THEN "awaitStore" ELSE "done"]
    /\ UNCHANGED <<initialized, esClient, secretsCache, storeReply, storeIndices,
                   storeDocs>>

\* elasticsearch.service.ts 112-129: the store executes the caller's pending
\* request and the caller runs on to its next await or to its end
callerResumes(p) ==
    /\ pc[p] = "awaitStore"
    /\ LET request == storeCalls[p][Len(storeCalls[p])] IN
       \E outcome \in StoreExecutes(request, storeIndices, storeDocs) :
        LET next == createIndex_resume(request, outcome.reply, call[p].indexName,
                                       call[p].mappings)
        IN /\ storeIndices' = outcome.indices
           /\ storeDocs' = outcome.docs
           /\ storeReply' = [storeReply EXCEPT ![p] = outcome.reply]
           /\ storeCalls' = [storeCalls EXCEPT ![p] = @ \o next.request]
           /\ result' = [result EXCEPT ![p] = next.result]
           /\ pc' = [pc EXCEPT ![p] = IF next.kind = "await"
                                      THEN "awaitStore" ELSE "done"]
    /\ UNCHANGED <<initialized, esClient, secretsCache, call>>

NextInterleaved ==
    \/ \E p \in Callers : callerCreatesIndex(p)
    \/ \E p \in Callers : callerResumes(p)

SpecInterleaved == InitInterleaved /\ [][NextInterleaved]_vars

----------------------------------------------------------------------------
(* Vocabulary of the properties on the script of two update objects *)

ScriptsBuilt == pc = "done" /\ call.op = "esScript"

\* The key paths of the leaves that carry a value, in the order the entries
\* are visited
RECURSIVE LeafPathsInOrder(_)
LeafPathsInOrder(obj) ==
    IF obj.v = <<>> THEN <<>>
    ELSE LET k == obj.v[1][1]
             x == obj.v[1][2]
             first == IF x.t = "object"
                      THEN LET below == LeafPathsInOrder(x)
                           IN [i \in 1..Len(below) |-> <<k>> \o below[i]]
                      ELSE IF x.t \in {"undefined", "null"} THEN <<>>
                      ELSE << <<k>> >>
         IN first \o LeafPathsInOrder(Obj(Tail(obj.v)))

----------------------------------------------------------------------------
(* C26 as stated: two update objects with the same set of non-null leaf     *)
(* paths give the same script source.                                       *)
C26_Original ==
    (ScriptsBuilt /\ LeafPaths(call.updateData) = LeafPaths(call.otherUpdateData)) =>
        result.value[1].source = result.value[2].source

(* C26: two update objects whose non-null leaf paths are the same in the    *)
(* same order give the same script source and the same parameter names;     *)
(* they differ at most in the values of the parameter table.                *)
C26_SourceFromOrderedPaths ==
    (ScriptsBuilt
        /\ LeafPathsInOrder(call.updateData) = LeafPathsInOrder(call.otherUpdateData)) =>
        /\ result.value[1].source = result.value[2].source
        /\ Len(result.value[1].params) = Len(result.value[2].params)
        /\ \A i \in 1..Len(result.value[1].params) :
              result.value[1].params[i][1] = result.value[2].params[i][1]

\* C26 witness: {a: {b: 1}, d: 2} and {a: {b: 2}, d: 1}: one source, two
\* parameter tables
C26_Witness ==
    /\ ScriptsBuilt
    /\ LeafPathsInOrder(call.updateData) = << <<<<"a">>, <<"b">>>>, <<<<"d">>>> >>
    /\ LeafPathsInOrder(call.otherUpdateData) = LeafPathsInOrder(call.updateData)
    /\ result.value[1].source = result.value[2].source
    /\ result.value[1].params # result.value[2].params

----------------------------------------------------------------------------
(* C27 as stated: every item returned by getAllItems, and every non-null    *)
(* result of getItemById, has as its id the identity the store gave to the  *)
(* hit it was made from, whatever fields the stored document has.           *)
C27_IdIsStoreIdentity ==
    /\ (Ended("getItemById") /\ result.kind = "return" /\ result.value # Null) =>
          GetProperty(result.value, <<"id">>)
              = GetProperty(storeReply.value, <<"_", "id">>)
    /\ (Ended("getAllItems") /\ result.kind = "return") =>
          LET hits == GetProperty(GetProperty(storeReply.value, <<"hits">>),
                                  <<"hits">>).v
          IN \A i \in 1..Len(hits) :
                GetProperty(result.value.v[i], <<"id">>)
                    = GetProperty(hits[i], <<"_", "id">>)

----------------------------------------------------------------------------
(* Vocabulary of the property on the symmetry of delete and update *)

\* An update object that updateByFilter accepts: it yields an assignment
ValidUpdateObject(u) == u.t = "object" /\ LeafPaths(u) # {}

\* What deleteByFilter does with the filter and index of the call in hand
DeleteSide == deleteByFilter_start(esClient, call.filter, call.indexName)

----------------------------------------------------------------------------
----------------------------------------------------------------------------
(* Vocabulary of the property on two callers of createIndex *)

\* The create requests the callers have issued for an index
CreateCallsFor(indexName) ==
    { <<p, i>> \in Callers \X (1..2) :
        /\ i <= Len(storeCalls[p])
        /\ storeCalls[p][i].api = "indices.create"
        /\ storeCalls[p][i].params.index = indexName }

\* Both callers asked for the same index, absent when they asked, with a
\* mappings file that loaded
SameIndexTwice ==
    /\ \A p \in Callers :
          /\ call[p].op = "createIndex"
          /\ NonBlankString(call[p].indexName)
          /\ call[p].mappings # Undef
    /\ \A p, q \in Callers : call[p].indexName = call[q].indexName

----------------------------------------------------------------------------
(* C29 as stated: when two callers run createIndex for the same absent      *)
(* index, in any interleaving, at most one create request goes to the       *)
(* store and neither caller fails.                                          *)
C29_InterleavedIdempotent ==
    SameIndexTwice =>
        /\ Cardinality(CreateCallsFor(call[1].indexName)) <= 1
        /\ \A p \in Callers : result[p].kind # "throw"

----------------------------------------------------------------------------
(* C30: whenever the readiness flag is true the connection handle exists    *)
(* and was constructed from a non-blank endpoint and a non-blank            *)
(* credential; a Ready service whose client has no auth does not occur.     *)
C30_ReadyIsAuthenticated ==
    initialized =>
        /\ esClient # Undef
        /\ esClient.t = "client"
        /\ NonBlankString(esClient.v.node)
        /\ esClient.v.auth # Undef
        /\ NonBlankString(esClient.v.auth.apiKey)

\* C30 witness: onModuleInit ended with both secrets resolved and the
\* service Ready, its client carrying the credential it resolved
C30_Witness ==
    /\ Ended("onModuleInit")
    /\ result = Returned(Undef)
    /\ initialized
    /\ esClient.v.node = call.node
    /\ esClient.v.auth = [apiKey |-> call.apiKey]

====
